---------------------------- MODULE Spec2Model ----------------------------
(***************************************************************************)
(* Model of app.py: the historical-monument chatbot.                       *)
(*                                                                         *)
(* A text (a Python str) is a sequence of pieces.  The character '@' and   *)
(* the decimal digits are pieces of their own; every other piece is a run  *)
(* of characters that holds no '@' and that no operation looks inside.     *)
(* None is a reserved value that is no text a user or a service produces.  *)
(***************************************************************************)
EXTENDS Naturals, Integers, Sequences, FiniteSets, TLC

VARIABLES
    state,       \* the session's ChatState (st.session_state["state"])
    otp_store,   \* the module-level dict email -> code
    pc,          \* position of the script run: "idle" or the node about to run
    raised,      \* the exception that ended the last call or run, "none" if none
    calls,       \* observation: the calls made to verify_otp, send_otp, get_monument_info
    nlp,         \* the pieces the loaded NER model tags as GPE (fixed for a run)
    lastCall,    \* observation: the last direct call of send_otp / verify_otp
    generated,   \* observation: email -> code drawn by the most recent send_otp
    previous,    \* observation: email -> code drawn by the send_otp before that
    screen,      \* what the last display showed, and the displays since the last input
    accepted     \* observation: <<email, text>> pairs verify_otp accepted since the last send_otp for email

vars == <<state, otp_store, pc, raised, calls, nlp, screen, lastCall, generated, previous, accepted>>

-----------------------------------------------------------------------------
(* Bounds of the model *)

MaxTurns == 3      \* user messages fed to one session
NumOtps == 1       \* codes sampled strictly inside the randint range
MaxMsgs == 3       \* transcript length when the nodes are called one at a time
MaxRenders == 2    \* displays of the transcript between two inputs
MaxRetries == 2    \* successive wrong codes tried before the right one

(* Program constants *)

OtpMin == 100000
OtpMax == 999999

-----------------------------------------------------------------------------
(* Python values *)

None == <<"<None>">>

Truthy(v) == v # None /\ v # <<>>

PyBool(b) == IF b THEN "True" ELSE "False"

Last(s) == s[Len(s)]

DigitChars == <<"0", "1", "2", "3", "4", "5", "6", "7", "8", "9">>

RECURSIVE Str(_)
Str(n) == IF n < 10 THEN <<DigitChars[n + 1]>>
          ELSE Str(n \div 10) \o <<DigitChars[(n % 10) + 1]>>

\* "@" in text
HasAt(text) == \E i \in 1..Len(text) : text[i] = "@"

\* d.get(k): the value under k, None when k is no key
Get(d, k) == IF k \in DOMAIN d THEN d[k] ELSE None

\* d[k] = v
Put(d, k, v) == [x \in DOMAIN d \cup {k} |-> IF x = k THEN v ELSE d[x]]

EmptyDict == [x \in {} |-> None]

\* the values random.randint(100000, 999999) is sampled at
OtpValues == {OtpMin, OtpMax} \cup {OtpMin + 23456 * i : i \in 1..NumOtps}

-----------------------------------------------------------------------------
(* Module-level names and the external services *)

\* the names bound at module level when send_otp runs
ModuleGlobals == {"st", "random", "smtplib", "spacy", "os", "load_dotenv", "genai",
                  "EmailMessage", "StateGraph", "SystemMessage", "HumanMessage",
                  "dataclass", "field", "Optional", "List", "Dict", "Any",
                  "GEMINI_API_KEY", "EMAIL_SENDER", "EMAIL_PASSWORD", "nlp",
                  "otp_store", "extract_location", "send_otp", "verify_otp",
                  "get_monument_info", "ChatState", "workflow", "greet_user",
                  "get_location", "request_email", "verify_user_otp",
                  "provide_info", "graph", "user_input"}

\* the pieces the NER model may tag as a geopolitical entity
GpeCandidates == {"Paris", "Hello"}

\* outcomes of the SMTP delivery and of the text-generation backend
TransportOutcomes == {"ok", "error"}
GenerateOutcomes == {"ok", "error"}

\* extract_location: the first GPE-tagged span in document order, else None
RECURSIVE FirstGpe(_, _, _)
FirstGpe(text, gpe, i) ==
    IF i > Len(text) THEN None
    ELSE IF text[i] \in gpe THEN <<text[i]>>
    ELSE FirstGpe(text, gpe, i + 1)

extract_location(user_input, gpe) == FirstGpe(user_input, gpe, 1)

\* the name send_otp reads for the sender address and for the login
SenderName == "EMAIL_ADDRESS"

\* send_otp(email): the store after the call and how the call ends:
\* "True", "False", or the exception that leaves it
send_otp_stores_on_success(store, email, otp, transport) ==
    LET code == Str(otp)
        outcome == IF SenderName \notin ModuleGlobals THEN "NameError"
                   ELSE IF transport = "error" THEN "False"
                   ELSE "True"
    IN  [otp_store |-> IF outcome = "True" THEN Put(store, email, code) ELSE store,
         outcome   |-> outcome]

send_otp_keeps_first(store, email, otp, transport) ==
    LET code == Str(otp)
    IN  [otp_store |-> IF email \in DOMAIN store THEN store ELSE Put(store, email, code),
         outcome   |-> IF SenderName \notin ModuleGlobals THEN "NameError"
                       ELSE IF transport = "error" THEN "False"
                       ELSE "True"]

send_otp(store, email, otp, transport) ==
    LET code == Str(otp)                        \* line 37
        stored == Put(store, email, code)       \* line 38
    IN  IF SenderName \notin ModuleGlobals      \* line 43, outside the try
        THEN [otp_store |-> stored, outcome |-> "NameError"]
        ELSE IF transport = "error"             \* lines 46-52
        THEN [otp_store |-> stored, outcome |-> "False"]
        ELSE [otp_store |-> stored, outcome |-> "True"]

\* verify_otp(email, entered_otp)
verify_otp_accepts_unknown(store, email, entered_otp) ==
    email \notin DOMAIN store \/ store[email] = entered_otp

verify_otp(store, email, entered_otp) == Get(store, email) = entered_otp

\* get_monument_info(location): the prompt and the backend's answer to it
Prompt(location) ==
    <<"Tell me about the top historical monuments in ">> \o location
        \o <<" with their significance.">>

Generate(prompt) == <<"gemini-pro: ">> \o prompt

get_monument_info(location) == Generate(Prompt(location))

-----------------------------------------------------------------------------
(* The session and the five workflow nodes *)

Bot(content) == [role |-> "bot", content |-> content]
User(content) == [role |-> "user", content |-> content]

\* ChatState(messages=[])
NewChatState == [messages |-> <<>>, email |-> None, otp_verified |-> FALSE,
                 location |-> None]

Greeting == <<"Hello", "! I'm your historical monument guide. Where are you traveling?">>
GotIt(location) == <<"Got it! You are interested in ">> \o location
                       \o <<". Can I have your email for verification?">>
NoLocation == <<"I couldn't detect a location. Can you mention it explicitly?">>
OtpSent == <<"OTP sent to your email. Please enter the OTP.">>
SendFailed == <<"Failed to send OTP. Try again.">>
InvalidEmail == <<"Please enter a valid email address.">>
OtpVerified == <<"OTP verified successfully! Fetching historical information...">>
InvalidOtp == <<"Invalid OTP. Try again.">>
NotVerified == <<"OTP not verified. Cannot proceed.">>

\* one observed call: the function, its arguments, what it read, how it ended
Call(fn, a, b, c, r) == [fn |-> fn, a |-> a, b |-> b, c |-> c, r |-> r]

\* A world w is [state, otp_store, calls, raised]: what a node reads and writes.
Say(w, content) == [w EXCEPT !.state.messages = Append(@, Bot(content))]

greet_user(w) == Say(w, Greeting)

get_location(w, gpe) ==
    LET user_input == Last(w.state.messages).content
        location == extract_location(user_input, gpe)
    IN  IF Truthy(location)
        THEN Say([w EXCEPT !.state.location = location], GotIt(location))
        ELSE Say(w, NoLocation)

request_email_stores_first(w, otp, transport) ==
    LET user_input == Last(w.state.messages).content
        w0 == [w EXCEPT !.state.email = user_input]
    IN  IF HasAt(user_input)
        THEN LET r == send_otp(w.otp_store, user_input, otp, transport)
                 w1 == [w0 EXCEPT !.otp_store = r.otp_store,
                                  !.calls = @ \cup {Call("send_otp", user_input,
                                                         Str(otp), <<transport>>, r.outcome)}]
             IN  IF r.outcome = "True" THEN Say(w1, OtpSent)
                 ELSE IF r.outcome = "False" THEN Say(w1, SendFailed)
                 ELSE [w1 EXCEPT !.raised = r.outcome]
        ELSE Say(w0, InvalidEmail)

request_email_clears_on_invalid(w, otp, transport) ==
    LET user_input == Last(w.state.messages).content
    IN  IF HasAt(user_input)
        THEN LET r == send_otp(w.otp_store, user_input, otp, transport)
                 w1 == [w EXCEPT !.state.email = user_input,
                                 !.otp_store = r.otp_store,
                                 !.calls = @ \cup {Call("send_otp", user_input,
                                                        Str(otp), <<transport>>, r.outcome)}]
             IN  IF r.outcome = "True" THEN Say(w1, OtpSent)
                 ELSE IF r.outcome = "False" THEN Say(w1, SendFailed)
                 ELSE [w1 EXCEPT !.raised = r.outcome]
        ELSE Say([w EXCEPT !.state.email = None], InvalidEmail)

request_email(w, otp, transport) ==
    LET user_input == Last(w.state.messages).content
    IN  IF HasAt(user_input)
        THEN LET r == send_otp(w.otp_store, user_input, otp, transport)
                 w1 == [w EXCEPT !.state.email = user_input,
                                 !.otp_store = r.otp_store,
                                 !.calls = @ \cup {Call("send_otp", user_input,
                                                        Str(otp), <<transport>>, r.outcome)}]
             IN  IF r.outcome = "True" THEN Say(w1, OtpSent)
                 ELSE IF r.outcome = "False" THEN Say(w1, SendFailed)
                 ELSE [w1 EXCEPT !.raised = r.outcome]
        ELSE Say(w, InvalidEmail)

verify_user_otp_always_sets(w) ==
    LET user_input == Last(w.state.messages).content
        ok == verify_otp(w.otp_store, w.state.email, user_input)
        w1 == [w EXCEPT !.calls = @ \cup {Call("verify_otp", w.state.email, user_input,
                                               Get(w.otp_store, w.state.email),
                                               PyBool(ok))}]
    IN  Say([w1 EXCEPT !.state.otp_verified = TRUE],
            IF ok THEN OtpVerified ELSE InvalidOtp)

verify_user_otp_locks_out(w) ==
    LET user_input == Last(w.state.messages).content
        ok == verify_otp(w.otp_store, w.state.email, user_input)
        w1 == [w EXCEPT !.calls = @ \cup {Call("verify_otp", w.state.email, user_input,
                                               Get(w.otp_store, w.state.email),
                                               PyBool(ok))}]
    IN  IF ok
        THEN Say([w1 EXCEPT !.state.otp_verified = TRUE], OtpVerified)
        ELSE Say([w1 EXCEPT !.otp_store = [k \in DOMAIN w.otp_store \ {w.state.email}
                                              |-> w.otp_store[k]]],
                 InvalidOtp)

verify_user_otp(w) ==
    LET user_input == Last(w.state.messages).content
        ok == verify_otp(w.otp_store, w.state.email, user_input)
        w1 == [w EXCEPT !.calls = @ \cup {Call("verify_otp", w.state.email, user_input,
                                               Get(w.otp_store, w.state.email),
                                               PyBool(ok))}]
    IN  IF ok
        THEN Say([w1 EXCEPT !.state.otp_verified = TRUE], OtpVerified)
        ELSE Say(w1, InvalidOtp)

provide_info_ungated(w, gen) ==
    LET w1 == [w EXCEPT !.calls = @ \cup {Call("get_monument_info", w.state.location,
                                               None, <<gen>>,
                                               PyBool(w.state.otp_verified))}]
    IN  IF gen = "error" THEN [w1 EXCEPT !.raised = "Exception"]
        ELSE Say(w1, get_monument_info(w.state.location))

provide_info(w, gen) ==
    IF w.state.otp_verified
    THEN LET w1 == [w EXCEPT !.calls = @ \cup {Call("get_monument_info",
                                                    w.state.location, None, <<gen>>,
                                                    PyBool(w.state.otp_verified))}]
         IN  IF gen = "error" THEN [w1 EXCEPT !.raised = "Exception"]  \* not caught
             ELSE Say(w1, get_monument_info(w.state.location))
    ELSE Say(w, NotVerified)

World == [state |-> state, otp_store |-> otp_store, calls |-> calls, raised |-> raised]

\* the variables a node writes take their values from world w
Becomes(w) ==
    /\ state' = w.state
    /\ otp_store' = w.otp_store
    /\ calls' = w.calls
    /\ raised' = w.raised

otpObs == <<lastCall, generated, previous, accepted>>

NoCall == [op |-> "none", email |-> None, text |-> None, transport |-> "none",
           result |-> "none", before |-> EmptyDict, again |-> FALSE]

\* the texts a user types
PlaceText == <<"I want to visit ", "Paris">>
EmailText == <<"a", "@", "b.com">>
OtherEmailText == <<"c", "@", "d.org">>
PlainText == <<"hi">>
CodeTexts == {Str(v) : v \in OtpValues}
UserTexts == {PlaceText, EmailText, PlainText} \cup CodeTexts

\* lines 167-171: one written line per transcript entry, in order
Display(messages) ==
    [i \in 1..Len(messages) |->
        IF messages[i].role = "bot" THEN <<"robot: ">> \o messages[i].content
        ELSE <<"person: ">> \o messages[i].content]

UserMessages(messages) == SelectSeq(messages, LAMBDA m : m.role = "user")
BotMessages(messages) == SelectSeq(messages, LAMBDA m : m.role = "bot")

-----------------------------------------------------------------------------
(* The script: one run per user input, the compiled graph run node by node *)

Init ==
    /\ state = NewChatState
    /\ otp_store = EmptyDict
    /\ pc = "idle"
    /\ raised = "none"
    /\ calls = {}
    /\ nlp \in SUBSET GpeCandidates
    /\ screen = [lines |-> Display(<<>>), renders |-> 0]
    /\ lastCall = NoCall
    /\ generated = EmptyDict
    /\ previous = EmptyDict
    /\ accepted = {}

After_stops_on_reprompt(w, next) ==
    IF w.raised # "none" \/ Last(w.state.messages) = Bot(NoLocation) THEN "idle" ELSE next

\* after a node: the next node, or the end of the run when it raised
After(w, next) == IF w.raised # "none" THEN "idle" ELSE next

\* lines 27 and 144-157: the rerun rebinds otp_store, appends the input and
\* enters the graph at its entry point
UserInput(text) ==
    /\ pc = "idle"
    /\ Len(UserMessages(state.messages)) < MaxTurns
    /\ state' = [state EXCEPT !.messages = Append(@, User(text))]
    /\ otp_store' = EmptyDict
    /\ raised' = "none"
    /\ pc' = "greet"
    /\ screen' = [screen EXCEPT !.renders = 0]
    /\ UNCHANGED <<calls, nlp, otpObs>>

Greet ==
    /\ pc = "greet"
    /\ LET w == greet_user(World) IN Becomes(w) /\ pc' = After(w, "extract_location")
    /\ UNCHANGED <<nlp, screen, otpObs>>

ExtractLocation ==
    /\ pc = "extract_location"
    /\ LET w == get_location(World, nlp) IN Becomes(w) /\ pc' = After(w, "request_email")
    /\ UNCHANGED <<nlp, screen, otpObs>>

RequestEmail ==
    /\ pc = "request_email"
    /\ \E otp \in OtpValues, transport \in TransportOutcomes :
          LET w == request_email(World, otp, transport)
          IN  Becomes(w) /\ pc' = After(w, "verify_otp")
    /\ UNCHANGED <<nlp, screen, otpObs>>

VerifyOtp ==
    /\ pc = "verify_otp"
    /\ LET w == verify_user_otp(World) IN Becomes(w) /\ pc' = After(w, "provide_info")
    /\ UNCHANGED <<nlp, screen, otpObs>>

\* the last node; line 160 then stores the state and the transcript is rendered
ProvideInfo ==
    /\ pc = "provide_info"
    /\ \E gen \in GenerateOutcomes :
          LET w == provide_info(World, gen)
          IN  /\ Becomes(w)
              /\ pc' = "idle"
              /\ screen' = IF w.raised # "none" THEN screen
                            ELSE [lines |-> Display(w.state.messages), renders |-> 0]
    /\ UNCHANGED <<nlp, otpObs>>

Render_reappends ==
    /\ pc = "idle"
    /\ screen.renders < MaxRenders
    /\ state.messages # <<>>
    /\ state' = [state EXCEPT !.messages = Append(@, Last(UserMessages(state.messages)))]
    /\ otp_store' = EmptyDict
    /\ screen' = [lines |-> Display(state'.messages), renders |-> screen.renders + 1]
    /\ UNCHANGED <<pc, raised, calls, nlp, otpObs>>

\* a rerun of the script with no input given: otp_store is bound again (line
\* 27), the session is found in session_state (144-147), the input branch is
\* skipped (153) and the transcript is displayed (162-171)
Render ==
    /\ pc = "idle"
    /\ screen.renders < MaxRenders
    /\ otp_store' = EmptyDict
    /\ screen' = [lines |-> Display(state.messages), renders |-> screen.renders + 1]
    /\ UNCHANGED <<state, pc, raised, calls, nlp, otpObs>>

Next ==
    \/ \E text \in UserTexts : UserInput(text)
    \/ Greet
    \/ ExtractLocation
    \/ RequestEmail
    \/ VerifyOtp
    \/ ProvideInfo
    \/ Render

Spec == Init /\ [][Next]_vars

\* graph.invoke: the five nodes in edge order, ended early by an exception
RunGraph(w, gpe, otp, transport, gen) ==
    LET w1 == greet_user(w)
        w2 == IF w1.raised # "none" THEN w1 ELSE get_location(w1, gpe)
        w3 == IF w2.raised # "none" THEN w2 ELSE request_email(w2, otp, transport)
        w4 == IF w3.raised # "none" THEN w3 ELSE verify_user_otp(w3)
    IN  IF w4.raised # "none" THEN w4 ELSE provide_info(w4, gen)

\* one whole run of the script on user input text
RunScript(w, text, gpe, otp, transport, gen) ==
    RunGraph([w EXCEPT !.state.messages = Append(@, User(text)),
                       !.otp_store = EmptyDict,
                       !.raised = "none"],
             gpe, otp, transport, gen)

-----------------------------------------------------------------------------
(* The OTP authenticator on its own: send_otp and verify_otp called directly, *)
(* in any order, on the module's store                                        *)

Emails == {EmailText, OtherEmailText}

\* what a caller passes as entered_otp: always a str
Candidates == CodeTexts \cup {InvalidEmail}

CallSendOtp(email, otp, transport) ==
    LET r == send_otp(otp_store, email, otp, transport)
    IN  /\ otp_store' = r.otp_store
        /\ raised' = IF r.outcome \in {"True", "False"} THEN "none" ELSE r.outcome
        /\ lastCall' = [op |-> "send_otp", email |-> email, text |-> Str(otp),
                        transport |-> transport, result |-> r.outcome,
                        before |-> otp_store, again |-> FALSE]
        /\ previous' = Put(previous, email, Get(generated, email))
        /\ generated' = Put(generated, email, Str(otp))
        /\ accepted' = {p \in accepted : p[1] # email}
        /\ UNCHANGED <<state, pc, calls, nlp, screen>>

CallVerifyOtp_consumes(email, entered_otp) ==
    LET ok == verify_otp(otp_store, email, entered_otp)
    IN  /\ otp_store' = IF ok THEN [k \in DOMAIN otp_store \ {email} |-> otp_store[k]]
                        ELSE otp_store
        /\ raised' = "none"
        /\ lastCall' = [op |-> "verify_otp", email |-> email, text |-> entered_otp,
                        transport |-> "none", result |-> PyBool(ok),
                        before |-> otp_store, again |-> <<email, entered_otp>> \in accepted]
        /\ accepted' = IF ok THEN accepted \cup {<<email, entered_otp>>} ELSE accepted
        /\ UNCHANGED <<state, pc, calls, nlp, screen, generated, previous>>

CallVerifyOtp(email, entered_otp) ==
    LET ok == verify_otp(otp_store, email, entered_otp)
    IN  /\ otp_store' = otp_store
        /\ raised' = "none"
        /\ lastCall' = [op |-> "verify_otp", email |-> email, text |-> entered_otp,
                        transport |-> "none", result |-> PyBool(ok),
                        before |-> otp_store, again |-> <<email, entered_otp>> \in accepted]
        /\ accepted' = IF ok THEN accepted \cup {<<email, entered_otp>>} ELSE accepted
        /\ UNCHANGED <<state, pc, calls, nlp, screen, generated, previous>>

NextOtp ==
    \/ \E email \in Emails, otp \in OtpValues, transport \in TransportOutcomes :
          CallSendOtp(email, otp, transport)
    \/ \E email \in Emails \cup {None}, entered_otp \in Candidates :
          CallVerifyOtp(email, entered_otp)

\* the NER model plays no part in the authenticator
InitOtp == Init /\ nlp = {}

SpecOtp == InitOtp /\ [][NextOtp]_vars

-----------------------------------------------------------------------------
(* The nodes on their own: the host's append and each node function called  *)
(* one at a time, in any order, on the session, as a caller holding the     *)
(* module can; an exception a call raises is caught by the caller.          *)

HasRoom == Len(state.messages) < MaxMsgs

HostAppend(text) ==
    /\ HasRoom
    /\ state' = [state EXCEPT !.messages = Append(@, User(text))]
    /\ raised' = "none"
    /\ UNCHANGED <<otp_store, pc, calls, nlp, screen, otpObs>>

CallGreetUser ==
    /\ HasRoom
    /\ Becomes(greet_user([World EXCEPT !.raised = "none"]))
    /\ UNCHANGED <<pc, nlp, screen, otpObs>>

CallGetLocation ==
    /\ HasRoom
    /\ state.messages # <<>>
    /\ Becomes(get_location([World EXCEPT !.raised = "none"], nlp))
    /\ UNCHANGED <<pc, nlp, screen, otpObs>>

CallRequestEmail ==
    /\ HasRoom
    /\ state.messages # <<>>
    /\ \E otp \in OtpValues, transport \in TransportOutcomes :
          Becomes(request_email([World EXCEPT !.raised = "none"], otp, transport))
    /\ UNCHANGED <<pc, nlp, screen, otpObs>>

CallVerifyUserOtp ==
    /\ HasRoom
    /\ state.messages # <<>>
    /\ Becomes(verify_user_otp([World EXCEPT !.raised = "none"]))
    /\ UNCHANGED <<pc, nlp, screen, otpObs>>

CallProvideInfo ==
    /\ HasRoom
    /\ \E gen \in GenerateOutcomes :
          Becomes(provide_info([World EXCEPT !.raised = "none"], gen))
    /\ UNCHANGED <<pc, nlp, screen, otpObs>>

\* the texts typed when the nodes are called one at a time
NodeTexts == {PlaceText, EmailText, Str(OtpMin), Str(OtpMax)}

NextNodes ==
    \/ \E text \in NodeTexts : HostAppend(text)
    \/ CallGreetUser
    \/ CallGetLocation
    \/ CallRequestEmail
    \/ CallVerifyUserOtp
    \/ CallProvideInfo

\* the NER model tags the place name of PlaceText
InitNodes == Init /\ nlp = {"Paris"}

SpecNodes == InitNodes /\ [][NextNodes]_vars

-----------------------------------------------------------------------------
(* Properties *)

Role(i) == state.messages[i].role

\* C1: between two runs of the script, every user entry of the transcript is
\* followed by exactly one bot entry: one bot message per user message.
OneReplyPerUserMessage ==
    pc = "idle" =>
        \A i \in 1..Len(state.messages) :
            Role(i) = "user" =>
                /\ i < Len(state.messages)
                /\ Role(i + 1) = "bot"
                /\ (i + 1 < Len(state.messages) => Role(i + 2) = "user")

\* C2: otp_verified is true only if some verify_otp call made by
\* verify_user_otp returned true, and every such call that returned true was
\* given a text equal to the code stored, at that moment, under the session's
\* email.
OtpVerifiedOnlyByMatch ==
    /\ state.otp_verified =>
           \E c \in calls : c.fn = "verify_otp" /\ c.r = "True"
    /\ \A c \in calls :
           (c.fn = "verify_otp" /\ c.r = "True") => (c.c # None /\ c.b = c.c)

\* C2 witness: a verification attempt matched and set the flag
OtpVerifiedByMatch ==
    /\ state.otp_verified
    /\ \E c \in calls : c.fn = "verify_otp" /\ c.r = "True" /\ c.a = state.email

\* C3: get_monument_info is only ever called with otp_verified true, and
\* provide_info run with otp_verified false calls nothing and changes only
\* the transcript, by the one refusal it appends.
ProviderGated ==
    /\ \A c \in calls : c.fn = "get_monument_info" => c.r = "True"
    /\ ~state.otp_verified =>
           \A gen \in GenerateOutcomes :
               provide_info(World, gen) =
                   [World EXCEPT !.state.messages = Append(@, Bot(NotVerified))]

\* C3 witness: provide_info has run with otp_verified false and refused
ProviderRefused ==
    /\ pc = "idle"
    /\ state.messages # <<>>
    /\ Last(state.messages) = Bot(NotVerified)
    /\ ~state.otp_verified
    /\ \A c \in calls : c.fn # "get_monument_info"

\* C5: every send_otp call ends by returning a boolean, False exactly when
\* the delivery raised.
SendOtpReturnsBoolean ==
    lastCall.op = "send_otp" =>
        /\ lastCall.result \in {"True", "False"}
        /\ (lastCall.result = "False") = (lastCall.transport = "error")

\* C6: verify_otp(e, c) is true exactly when c is the code drawn by the most
\* recent send_otp(e), and false for every candidate when no code is stored
\* for e; the value a verify_otp call returned agrees.
OtpRoundTrip ==
    /\ \A e \in Emails \cup {None}, c \in Candidates :
           /\ verify_otp(otp_store, e, c) = (e \in DOMAIN generated /\ generated[e] = c)
           /\ e \notin DOMAIN otp_store => ~verify_otp(otp_store, e, c)
    /\ lastCall.op = "verify_otp" =>
           lastCall.result = PyBool(/\ lastCall.email \in DOMAIN generated
                                    /\ generated[lastCall.email] = lastCall.text)

\* C6 witness: after a send for one email, verify_otp accepted its code while
\* another email has no code stored
RoundTripDone ==
    /\ lastCall.op = "verify_otp"
    /\ lastCall.result = "True"
    /\ lastCall.text = Get(generated, lastCall.email)
    /\ \E e \in Emails : e \notin DOMAIN otp_store

\* C7: the store holds, for every email sent to, the code drawn by the most
\* recent send_otp for it; verify_otp accepts that code and rejects the code
\* of the send before when the two differ.
LastWriteWins ==
    \A e \in DOMAIN generated :
        /\ e \in DOMAIN otp_store
        /\ otp_store[e] = generated[e]
        /\ verify_otp(otp_store, e, generated[e])
        /\ previous[e] # generated[e] => ~verify_otp(otp_store, e, previous[e])

\* C7 witness: two sends drew different codes and verify_otp then rejected the first
FirstCodeRejected ==
    /\ lastCall.op = "verify_otp"
    /\ lastCall.email \in DOMAIN generated
    /\ previous[lastCall.email] \notin {None, generated[lastCall.email]}
    /\ lastCall.text = previous[lastCall.email]
    /\ lastCall.result = "False"

\* C8: a verify_otp call leaves the store as it found it, every pair it has
\* accepted since the last send for that email is still accepted, and a
\* repeated call on such a pair returned true.
VerifyKeepsStore ==
    /\ lastCall.op = "verify_otp" => otp_store = lastCall.before
    /\ \A p \in accepted : verify_otp(otp_store, p[1], p[2])
    /\ (lastCall.op = "verify_otp" /\ lastCall.again) => lastCall.result = "True"

\* C8 witness: a code that had verified was verified again and accepted
ReplayAccepted ==
    /\ lastCall.op = "verify_otp"
    /\ lastCall.again
    /\ lastCall.result = "True"

\* C9: after a send_otp call that did not end in success, the store holds
\* the newly drawn code for that email, verify_otp accepts it and accepts no
\* other candidate.
StoredBeforeDelivery ==
    (lastCall.op = "send_otp" /\ lastCall.result # "True") =>
        /\ Get(otp_store, lastCall.email) = lastCall.text
        /\ \A c \in Candidates :
               verify_otp(otp_store, lastCall.email, c) = (c = lastCall.text)

\* C9 witness: a send that did not succeed replaced an earlier, different code
FailedSendReplacedCode ==
    /\ lastCall.op = "send_otp"
    /\ lastCall.result # "True"
    /\ Get(lastCall.before, lastCall.email) \notin {None, lastCall.text}
    /\ Get(otp_store, lastCall.email) = lastCall.text

\* C10: a session fed a message in which the extractor finds a place and then
\* a message containing '@' (every delivery attempted having succeeded) holds
\* a code for that email, and fed that code it ends with otp_verified true,
\* location the extracted place and the provider's text as the last message.
HappyPathReachable ==
    LET fed == UserMessages(state.messages)
    IN  (/\ pc = "idle"
         /\ Len(fed) = 2
         /\ Truthy(extract_location(fed[1].content, nlp))
         /\ HasAt(fed[2].content)
         /\ \A c \in calls : c.fn = "send_otp" => c.c = <<"ok">>)
        => LET code == Get(otp_store, fed[2].content)
               place == extract_location(fed[1].content, nlp)
           IN  /\ code # None
               /\ \E otp \in OtpValues :
                      LET w == RunScript(World, code, nlp, otp, "ok", "ok")
                      IN  /\ w.state.otp_verified
                          /\ w.state.location = place
                          /\ Last(w.state.messages) = Bot(get_monument_info(place))

-----------------------------------------------------------------------------
(* The explicit-stage dispatcher the design describes: one handler per     *)
(* message, chosen by the stage, the handlers being the node functions     *)

InitialWorld == [state |-> NewChatState, otp_store |-> EmptyDict, calls |-> {},
                 raised |-> "none"]

\* the stage's handler run on world w, whose last entry is the user's message
StageHandle(stage, w, gpe, otp, transport, gen) ==
    LET text == Last(w.state.messages).content
    IN  CASE stage = "GREET" ->
                [stage |-> "AWAIT_LOCATION", w |-> greet_user(w)]
          [] stage = "AWAIT_LOCATION" ->
                [stage |-> IF Truthy(extract_location(text, gpe)) THEN "AWAIT_EMAIL"
                           ELSE "AWAIT_LOCATION",
                 w |-> get_location(w, gpe)]
          [] stage = "AWAIT_EMAIL" ->
                LET w1 == request_email(w, otp, transport)
                IN  [stage |-> IF HasAt(text) /\ w1.raised = "none" THEN "AWAIT_OTP"
                               ELSE "AWAIT_EMAIL",
                     w |-> w1]
          [] stage = "AWAIT_OTP" ->
                LET w1 == verify_user_otp(w)
                IN  [stage |-> IF w1.state.otp_verified THEN "PROVIDE_INFO"
                               ELSE "AWAIT_OTP",
                     w |-> w1]
          [] OTHER ->
                [stage |-> "PROVIDE_INFO", w |-> provide_info(w, gen)]

\* the dispatcher's session after the first k of the user texts
RECURSIVE Staged(_, _, _, _, _, _)
Staged(texts, k, gpe, otp, transport, gen) ==
    IF k = 0 THEN [stage |-> "GREET", w |-> InitialWorld]
    ELSE LET before == Staged(texts, k - 1, gpe, otp, transport, gen)
             w == [before.w EXCEPT !.state.messages = Append(@, User(texts[k])),
                                   !.raised = "none"]
         IN  StageHandle(before.stage, w, gpe, otp, transport, gen)

-----------------------------------------------------------------------------
(* Properties of the steps *)

Fed == UserMessages(state.messages)

\* the entries appended since the last user entry
Replies ==
    LET n == Len(state.messages)
        users == {i \in 1..n : Role(i) = "user"}
        last == IF users = {} THEN 0 ELSE CHOOSE i \in users : \A j \in users : j <= i
    IN  SubSeq(state.messages, last + 1, n)

InReplies(m) == \E i \in 1..Len(Replies) : Replies[i] = m

\* C11: once a message has been processed in a session that had been given no
\* place before and has no email yet, location is the place the extractor
\* finds in that message and the reply is the confirmation; when it finds
\* none, location is still unset and the reply is the location re-prompt.
LocationStep ==
    (/\ pc = "idle"
     /\ Len(Fed) >= 1
     /\ state.email = None
     /\ \A i \in 1..(Len(Fed) - 1) : ~Truthy(extract_location(Fed[i].content, nlp)))
    => LET p == extract_location(Fed[Len(Fed)].content, nlp)
       IN  IF Truthy(p)
           THEN state.location = p /\ InReplies(Bot(GotIt(p)))
           ELSE state.location = None /\ InReplies(Bot(NoLocation))

\* from w, the stored code is accepted when typed now, and a wrong code
\* typed instead is refused, changes nothing but the transcript, and leaves
\* the same true of the session after it, k times over
RECURSIVE StillAccepted(_, _, _, _)
StillAccepted(w, code, wrong, k) ==
    LET typed(t) == [w EXCEPT !.state.messages = Append(@, User(t))]
        w3 == verify_user_otp(typed(code))
    IN  /\ w3.state.otp_verified
        /\ Last(w3.state.messages) = Bot(OtpVerified)
        /\ k > 0 =>
               LET w2 == verify_user_otp(typed(wrong))
               IN  /\ w2.state.otp_verified = w.state.otp_verified
                   /\ w2.state.email = w.state.email
                   /\ w2.state.location = w.state.location
                   /\ w2.otp_store = w.otp_store
                   /\ Last(w2.state.messages) = Bot(InvalidOtp)
                   /\ StillAccepted(w2, code, wrong, k - 1)

MalformedEmailIgnored ==
    /\ (state.messages # <<>> /\ ~HasAt(Last(state.messages).content)) =>
           LET reprompted == Say(World, InvalidEmail)
           IN  \A otp \in OtpValues, transport \in TransportOutcomes :
                   request_email(World, otp, transport) = reprompted
    /\ state.email # None => HasAt(state.email)
    /\ \A c \in calls : c.fn = "send_otp" => HasAt(c.a)

\* C13 witness: with an email already taken, a text without '@' was answered
\* by the re-prompt and the email kept
MalformedEmailRefused ==
    /\ state.email # None
    /\ Len(state.messages) >= 2
    /\ Last(state.messages) = Bot(InvalidEmail)
    /\ ~HasAt(state.messages[Len(state.messages) - 1].content)

\* C14: between two runs, the transcript is the one the explicit-stage
\* dispatcher produces from the same user messages, for some outcome of the
\* external services.
StagedTranscriptEqual ==
    pc = "idle" =>
        \E otp \in OtpValues, transport \in TransportOutcomes, gen \in GenerateOutcomes :
            LET texts == [i \in 1..Len(Fed) |-> Fed[i].content]
            IN  Staged(texts, Len(texts), nlp, otp, transport, gen).w.state.messages
                    = state.messages

ReadsUserMessage ==
    pc \in {"extract_location", "request_email", "verify_otp"} =>
        /\ Last(state.messages).role = "user"
        /\ Last(state.messages) = Fed[Len(Fed)]

\* C17: the greeting occurs at most once in a transcript, and between two
\* runs of a session that has been given input it is the first bot message
\* and occurs exactly once.
GreetingOnce ==
    LET greetings == {i \in 1..Len(state.messages) : state.messages[i] = Bot(Greeting)}
        bots == BotMessages(state.messages)
    IN  /\ Cardinality(greetings) <= 1
        /\ (pc = "idle" /\ state.messages # <<>>) =>
               (Cardinality(greetings) = 1 /\ bots[1] = Bot(Greeting))

\* the node that writes a bot message
NodeOf(m) ==
    IF m.content = Greeting THEN "greet"
    ELSE IF m.content = NoLocation \/ m.content[1] = GotIt(<<>>)[1] THEN "extract_location"
    ELSE IF m.content \in {OtpSent, SendFailed, InvalidEmail} THEN "request_email"
    ELSE IF m.content \in {OtpVerified, InvalidOtp} THEN "verify_otp"
    ELSE "provide_info"

NodeOrder == <<"greet", "extract_location", "request_email", "verify_otp", "provide_info">>

\* C18: in every run the entries appended since the user's message were
\* written by greet, extract_location, request_email, verify_otp,
\* provide_info in that order, one each: the node about to run is the next in
\* the chain, a run in progress can always take its next step, and a run
\* that is over has run all five.
RunsAllNodesInOrder ==
    state.messages # <<>> =>
        /\ \A i \in 1..Len(Replies) :
               /\ Replies[i].role = "bot"
               /\ i <= Len(NodeOrder)
               /\ NodeOf(Replies[i]) = NodeOrder[i]
        /\ IF pc = "idle" THEN Len(Replies) = Len(NodeOrder)
           ELSE Len(Replies) < Len(NodeOrder) /\ pc = NodeOrder[Len(Replies) + 1]
        /\ pc # "idle" => ENABLED Next

\* C18 witness: a second run, on a session whose location is set, is over
SecondRunOver ==
    /\ pc = "idle"
    /\ Len(Fed) = 2
    /\ Truthy(state.location)
    /\ Len(Replies) = 5

=============================================================================
